---- MODULE Spec2Model ----
(***************************************************************************)
(* A model of errorCrawler (src/sitemap_crawler.py, src/settings.py):      *)
(*   - get_all_page_urls, the recursive sitemap resolver, as a machine     *)
(*     with an explicit call stack (specification SpecResolve);            *)
(*   - crawl_and_log_errors, the per-URL crawl loop over one browser       *)
(*     session, with sanitize_filename (specification SpecCrawl);          *)
(*   - sanitize_filename called on its own (specification SpecSanitize);   *)
(*   - two successive top-level calls of get_all_page_urls (specification  *)
(*     SpecResolveTwice);                                                  *)
(*   - the script's main block, which runs the two in turn (specification  *)
(*     SpecMain).                                                          *)
(* Text is a sequence of one-character strings.                            *)
(***************************************************************************)
EXTENDS Integers, Sequences, FiniteSets, TLC

VARIABLES
    \* ---- get_all_page_urls
    rpc,              \* "idle" | "running" | "done": the top-level call
    stack,            \* the call stack of get_all_page_urls, innermost frame last
    visited_sitemaps, \* the set shared by the whole call tree
    docs,             \* what each sitemap URL answers when fetched (the web)
    fetched,          \* the sitemap URLs passed to requests.get, in order
    result,           \* what the top-level call returned
    rraised,          \* an exception left the top-level call
    \* ---- crawl_and_log_errors
    pc,               \* the position in crawl_and_log_errors
    urls_to_crawl,    \* the argument
    i,                \* enumerate(urls_to_crawl, 1): the current index
    driver,           \* "None" | "open" | "closed"
    filename,         \* sanitize_filename(url) of the current iteration
    logs,             \* driver.get_log('browser') of the current iteration
    error_log_entries,\* the formatted records kept for the current URL
    exc,              \* the exception the per-URL try caught, or "none"
    files,            \* the output directory: filename -> content
    events,           \* what the run did to the outside, in order
    craised,          \* an exception left crawl_and_log_errors
    settings,         \* settings.py as the run reads it
    pyhash,           \* hash() of this process: URL -> the digits of abs(hash(url))
    \* ---- the main block
    mpc,              \* the position in the main block, "imported" when it does not run
    start_sitemap_url \* input(...).strip()

rvars == <<rpc, stack, visited_sitemaps, docs, fetched, result, rraised>>
cvars == <<pc, urls_to_crawl, i, driver, filename, logs, error_log_entries, exc,
           files, events, craised, settings, pyhash>>
mvars == <<mpc, start_sitemap_url>>
vars == <<mpc, start_sitemap_url,
          rpc, stack, visited_sitemaps, docs, fetched, result, rraised,
          pc, urls_to_crawl, i, driver, filename, logs, error_log_entries, exc,
          files, events, craised, settings, pyhash>>

\* ---------------------------------------------------------------- bounds
\* location entries per sitemap document
MaxLocs == 2
\* depth of the call stack of get_all_page_urls the model follows
MaxDepth == 6
\* URLs handed to crawl_and_log_errors
MaxUrls == 2

\* ------------------------------------------------------------------ text
\* the member of a singleton
The(S) == CHOOSE x \in S : TRUE

\* F(x), with x evaluated once
Apply(F(_), x) == The({ F(v) : v \in {x} })

MinOf(S) == CHOOSE x \in S : \A y \in S : x <= y
MaxOf(S) == CHOOSE x \in S : \A y \in S : x >= y
Min(S) == Apply(MinOf, S)
Max(S) == Apply(MaxOf, S)

SeqsUpTo(S, n) == UNION { [1..k -> S] : k \in 0..n }

\* str.startswith
startswith(s, p) == Len(s) >= Len(p) /\ SubSeq(s, 1, Len(p)) = p

IsSpace(c) == c \in {" ", "\t", "\n", "\r"}

\* str.strip(): whitespace removed at both ends
strip(s) ==
    LET keep == { k \in 1..Len(s) : ~IsSpace(s[k]) }
    IN  IF keep = {} THEN << >> ELSE SubSeq(s, Min(keep), Max(keep))

HTTP  == <<"h","t","t","p",":","/","/">>
HTTPS == <<"h","t","t","p","s",":","/","/">>

\* the length of "scheme://" (the model's URLs have the schemes http, https or none)
SchemeLen(s) ==
    IF startswith(s, HTTPS) THEN Len(HTTPS)
    ELSE IF startswith(s, HTTP) THEN Len(HTTP) ELSE 0

\* urlsplit: the netloc runs from after "//" to the first of / ? #
NetlocEnd(s) ==
    LET stops == { k \in (SchemeLen(s) + 1)..Len(s) : s[k] \in {"/", "?", "#"} }
    IN  IF SchemeLen(s) = 0 THEN 0
        ELSE IF stops = {} THEN Len(s) ELSE Min(stops) - 1

Netloc(s) == IF SchemeLen(s) = 0 THEN << >> ELSE SubSeq(s, SchemeLen(s) + 1, NetlocEnd(s))

\* urlsplit: the path runs from the netloc to the first of ? #
PathEnd(s) ==
    LET stops == { k \in (NetlocEnd(s) + 1)..Len(s) : s[k] \in {"?", "#"} }
    IN  IF stops = {} THEN Len(s) ELSE Min(stops) - 1

Path(s) == SubSeq(s, NetlocEnd(s) + 1, PathEnd(s))

Has(s, c) == \E k \in 1..Len(s) : s[k] = c

\* urlsplit raises ValueError("Invalid IPv6 URL") on a netloc with one bracket only
UrlParseRaises(s) ==
    LET OneBracket(netloc) == Has(netloc, "[") # Has(netloc, "]")
    IN  SchemeLen(s) > 0 /\ Apply(OneBracket, Netloc(s))

\* urljoin(base, url) raises where urlparse of either does
urljoinRaises(base, url) == url # << >> /\ (UrlParseRaises(base) \/ UrlParseRaises(url))

\* urljoin(base, url) for an absolute url, a path-absolute one and a relative one
\* (without dot segments, queries or fragments)
urljoin(base, url) ==
    IF url = << >> THEN base
    ELSE IF SchemeLen(url) > 0 THEN url
    ELSE IF url[1] = "/" THEN SubSeq(base, 1, NetlocEnd(base)) \o url
    ELSE LET Dir(p) ==
                 LET slashes == { k \in 1..Len(p) : p[k] = "/" }
                 IN  IF slashes = {} THEN <<"/">> ELSE SubSeq(p, 1, Max(slashes))
         IN  SubSeq(base, 1, NetlocEnd(base)) \o Apply(Dir, Path(base)) \o url

\* ------------------------------------------------------ sanitize_filename
\* max_len of sanitize_filename
max_len == 200

UpperOf ==
    [a |-> "A", b |-> "B", c |-> "C", d |-> "D", e |-> "E", f |-> "F", g |-> "G",
     h |-> "H", i |-> "I", j |-> "J", k |-> "K", l |-> "L", m |-> "M", n |-> "N",
     o |-> "O", p |-> "P", q |-> "Q", r |-> "R", s |-> "S", t |-> "T", u |-> "U",
     v |-> "V", w |-> "W", x |-> "X", y |-> "Y", z |-> "Z"]

\* str.upper and str.lower, on the ASCII letters
upper(s) == [k \in 1..Len(s) |-> IF s[k] \in DOMAIN UpperOf THEN UpperOf[s[k]] ELSE s[k]]
lower(s) ==
    [k \in 1..Len(s) |->
        IF \E c \in DOMAIN UpperOf : UpperOf[c] = s[k]
        THEN CHOOSE c \in DOMAIN UpperOf : UpperOf[c] = s[k]
        ELSE s[k]]

\* urlparse(url).path: the path without the parameters of its last segment
\* (";" and what follows it, after the last "/")
NoParams(p) ==
    LET slashes == { k \in 1..Len(p) : p[k] = "/" }
        from == IF slashes = {} THEN 1 ELSE Max(slashes)
        semis == { k \in from..Len(p) : p[k] = ";" }
    IN  IF semis = {} THEN p ELSE SubSeq(p, 1, Min(semis) - 1)

UrlPath(s) == Apply(NoParams, Path(s))

\* the class [\\/*?:"<>|\x00-\x1f] of the re.sub (of the control characters,
\* the ones text here can hold)
InvalidChars == {"\\", "/", "*", "?", ":", "\"", "<", ">", "|", "\t", "\n", "\r", "\f"}

\* str.strip(chars)
strip_chars(s, chars) ==
    LET keep == { k \in 1..Len(s) : s[k] \notin chars }
    IN  IF keep = {} THEN << >> ELSE SubSeq(s, Min(keep), Max(keep))

\* a variant of Truncate: the name is left as long as it is
TruncateNot(safe_name) == safe_name

\* the truncation to max_len: at the last "_" among the first max_len characters
\* (rfind('_', 0, max_len)) if there is one, else at max_len
Truncate(safe_name) ==
    IF Len(safe_name) > max_len
    THEN LET under == { k \in 1..max_len : safe_name[k] = "_" }
         IN  IF under # {} THEN SubSeq(safe_name, 1, Max(under) - 1)
             ELSE SubSeq(safe_name, 1, max_len)
    ELSE safe_name

ReservedNames ==
    { <<"C","O","N">>, <<"P","R","N">>, <<"A","U","X">>, <<"N","U","L">> }
    \cup { <<"C","O","M">> \o <<d>> : d \in {"1","2","3","4","5","6","7","8","9"} }
    \cup { <<"L","P","T">> \o <<d>> : d \in {"1","2","3","4","5","6","7","8","9"} }

DotLog == <<".","l","o","g">>
InvalidUrlName == <<"i","n","v","a","l","i","d","_","u","r","l">>
SanitizedUrl_ == <<"s","a","n","i","t","i","z","e","d","_","u","r","l","_">>

\* "if path.endswith('/') and len(path) > 1: path = path[:-1]"
DropTrailingSlash(path) ==
    IF Len(path) > 1 /\ path[Len(path)] = "/" THEN SubSeq(path, 1, Len(path) - 1) ELSE path

\* the re.sub (the replace of "/" after it finds none left)
ReplaceInvalid(path) ==
    [k \in 1..Len(path) |-> IF path[k] \in InvalidChars THEN "_" ELSE path[k]]

\* safe_name.strip('._')
StripDotsUnderscores(safe_name) == strip_chars(safe_name, {".", "_"})

\* what urlsplit parses: the text without leading C0 control characters and
\* spaces, and without any tab, CR or LF
C0ControlOrSpace == {" ", "\t", "\n", "\r", "\f"}
UnsafeUrlBytes == {"\t", "\r", "\n"}

urlsplitInput(s) ==
    LET keep == { k \in 1..Len(s) : s[k] \notin C0ControlOrSpace }
        Safe(c) == c \notin UnsafeUrlBytes
    IN  IF keep = {} THEN << >> ELSE SelectSeq(SubSeq(s, Min(keep), Len(s)), Safe)

\* "path = netloc + path_part"
NetlocPath(s) == Netloc(s) \o UrlPath(s)

\* the name before the fallback: netloc + path, one trailing slash dropped,
\* invalid characters replaced, dots and underscores stripped, truncated
SafeName(url) ==
    Apply(Truncate,
      Apply(StripDotsUnderscores,
        Apply(ReplaceInvalid,
          Apply(DropTrailingSlash,
            Apply(NetlocPath, urlsplitInput(url))))))

\* "if not safe_name or safe_name.upper() in [...]"
IsEmptyOrReserved(safe_name) ==
    IF safe_name = << >> THEN TRUE ELSE upper(safe_name) \in ReservedNames

\* the fallback is taken for an empty or reserved name
NeedsFallback(url) == Apply(IsEmptyOrReserved, SafeName(url))

\* sanitize_filename raises where urlparse does
sanitize_filenameRaises(url) == url # << >> /\ Apply(UrlParseRaises, urlsplitInput(url))

sanitize_filename(url) ==
    IF url = << >> THEN InvalidUrlName
    ELSE IF NeedsFallback(url) THEN SanitizedUrl_ \o pyhash[url] \o DotLog
    ELSE SafeName(url) \o DotLog

\* ------------------------------------------------- get_all_page_urls: the web
SeedA == <<"h","t","t","p",":","/","/","a","/","1">>
Seeds == {SeedA}

\* <loc> texts of a sitemap index: absolute (the seed itself), relative with
\* blanks around, path-absolute, malformed (urljoin raises ValueError)
SitemapLocs ==
    { SeedA,
      <<" ","2","\n">>,
      <<"/","3">>,
      <<"h","t","t","p",":","/","/","[">> }

\* <loc> texts of a urlset, in document order: valid with blanks around, valid
\* https, relative; a urlset document holds any of them, in this order
PageLocs ==
    << <<" ","h","t","t","p",":","/","/","p","\n">>,
       <<"h","t","t","p","s",":","/","/","q">>,
       <<"/","r">> >>

\* the entries of seq at the positions S, in order
Pick(seq, S) ==
    LET nth[k \in 1..Cardinality(S)] ==
            IF k = 1 THEN Min(S) ELSE Min({ x \in S : x > nth[k - 1] })
    IN  [k \in 1..Cardinality(S) |-> seq[nth[k]]]

\* what requests.get and etree.fromstring can make of one sitemap URL
Responses ==
    { [status |-> s, tag |-> "", locs |-> << >>] :
        s \in {"RequestException", "empty", "XMLSyntaxError", "rootNone"} }
    \cup { [status |-> "ok", tag |-> "sitemapindex", locs |-> l] : l \in SeqsUpTo(SitemapLocs, MaxLocs) }
    \cup { [status |-> "ok", tag |-> "urlset", locs |-> Pick(PageLocs, S)] : S \in SUBSET (1..Len(PageLocs)) }
    \cup { [status |-> "ok", tag |-> "html", locs |-> << >>] }

\* ------------------------------------------------- get_all_page_urls: the call
Frame(url) == [sitemap_url |-> url, phase |-> "enter", pending |-> << >>, page_urls |-> {}]

Top == stack[Len(stack)]

SetTop(f) == [stack EXCEPT ![Len(stack)] = f]

\* a variant of Caught: only "except requests.exceptions.RequestException" is there
CaughtRequestOnly(e) == e \in {"RequestException"}

\* the except clauses of get_all_page_urls: which exceptions end in "return page_urls"
Caught(e) == e \in {"RequestException", "XMLSyntaxError", "ValueError"}

\* a variant of Return: the caller assigns what the call returned instead of
\* page_urls.update(...)
ReturnAssigned(S) ==
    IF Len(stack) = 1
    THEN /\ stack' = << >>
         /\ result' = S
         /\ rpc' = "done"
         /\ rraised' = rraised
    ELSE /\ stack' = [k \in 1..(Len(stack) - 1) |->
                        IF k = Len(stack) - 1
                        THEN [stack[k] EXCEPT !.page_urls = S]
                        ELSE stack[k]]
         /\ UNCHANGED <<result, rpc, rraised>>

\* the innermost call returns S: the caller unions it into its page_urls, and
\* the top-level call hands it out
Return(S) ==
    IF Len(stack) = 1
    THEN /\ stack' = << >>
         /\ result' = S
         /\ rpc' = "done"
         /\ rraised' = rraised
    ELSE /\ stack' = [k \in 1..(Len(stack) - 1) |->
                        IF k = Len(stack) - 1
                        THEN [stack[k] EXCEPT !.page_urls = @ \cup S]
                        ELSE stack[k]]
         /\ UNCHANGED <<result, rpc, rraised>>

\* an exception inside the try of the innermost call: a handled one logs and
\* falls through to "return page_urls"; any other leaves every frame, since each
\* caller holds the call inside the same try
Raise(e) ==
    IF Caught(e)
    THEN Return(Top.page_urls)
    ELSE /\ stack' = << >>
         /\ result' = {}
         /\ rpc' = "done"
         /\ rraised' = TRUE

\* a variant of IsPageUrl: any text that is not empty passes
IsPageUrlNonEmpty(url_text) == url_text # << >>

\* the urlset test of one stripped <loc> text
IsPageUrl(url_text) == startswith(url_text, HTTP) \/ startswith(url_text, HTTPS)

\* the top-level call get_all_page_urls(seed): visited_sitemaps is None, so a new set
Resolve(seed) ==
    /\ rpc = "idle"
    /\ rpc' = "running"
    /\ stack' = <<Frame(seed)>>
    /\ visited_sitemaps' = {}
    /\ UNCHANGED <<docs, fetched, result, rraised>>
    /\ UNCHANGED <<cvars, mvars>>

\* "if sitemap_url in visited_sitemaps: return set()"
SkipVisited ==
    /\ rpc = "running"
    /\ Top.phase = "enter"
    /\ Top.sitemap_url \in visited_sitemaps
    /\ Return({})
    /\ UNCHANGED <<visited_sitemaps, docs, fetched>>
    /\ UNCHANGED <<cvars, mvars>>

\* what the fetch of url answers: the same as before if it was fetched before
Answers(url) == IF url \in DOMAIN docs THEN {docs[url]} ELSE Responses

\* a variant of Fetch: visited_sitemaps.add(sitemap_url) is left out
FetchUnmarked ==
    /\ rpc = "running"
    /\ Top.phase = "enter"
    /\ Top.sitemap_url \notin visited_sitemaps
    /\ visited_sitemaps' = visited_sitemaps
    /\ fetched' = Append(fetched, Top.sitemap_url)
    /\ \E r \in Answers(Top.sitemap_url) :
        /\ docs' = (Top.sitemap_url :> r) @@ docs
        /\ CASE r.status \in {"RequestException", "XMLSyntaxError"} -> Raise(r.status)
             [] r.status \in {"empty", "rootNone"} -> Return({})
             [] r.status = "ok" /\ r.tag \in {"sitemapindex", "urlset"} ->
                    /\ stack' = SetTop([Top EXCEPT !.phase = r.tag, !.pending = r.locs])
                    /\ UNCHANGED <<result, rpc, rraised>>
             [] OTHER -> Return(Top.page_urls)
    /\ UNCHANGED <<cvars, mvars>>

\* a variant of Fetch: the URL is added to visited_sitemaps after the fetch and
\* the parse, so only when they went well
FetchMarksOnSuccess ==
    /\ rpc = "running"
    /\ Top.phase = "enter"
    /\ Top.sitemap_url \notin visited_sitemaps
    /\ fetched' = Append(fetched, Top.sitemap_url)
    /\ \E r \in Answers(Top.sitemap_url) :
        /\ docs' = (Top.sitemap_url :> r) @@ docs
        /\ visited_sitemaps' = IF r.status = "ok"
                               THEN visited_sitemaps \cup {Top.sitemap_url}
                               ELSE visited_sitemaps
        /\ CASE r.status \in {"RequestException", "XMLSyntaxError"} -> Raise(r.status)
             [] r.status \in {"empty", "rootNone"} -> Return({})
             [] r.status = "ok" /\ r.tag \in {"sitemapindex", "urlset"} ->
                    /\ stack' = SetTop([Top EXCEPT !.phase = r.tag, !.pending = r.locs])
                    /\ UNCHANGED <<result, rpc, rraised>>
             [] OTHER -> Return(Top.page_urls)
    /\ UNCHANGED <<cvars, mvars>>

\* visited_sitemaps.add, requests.get, raise_for_status, the parse and the
\* classification by root tag
Fetch ==
    /\ rpc = "running"
    /\ Top.phase = "enter"
    /\ Top.sitemap_url \notin visited_sitemaps
    /\ visited_sitemaps' = visited_sitemaps \cup {Top.sitemap_url}
    /\ fetched' = Append(fetched, Top.sitemap_url)
    /\ \E r \in Answers(Top.sitemap_url) :
        /\ docs' = (Top.sitemap_url :> r) @@ docs
        /\ CASE r.status \in {"RequestException", "XMLSyntaxError"} -> Raise(r.status)
             [] r.status \in {"empty", "rootNone"} -> Return({})
             [] r.status = "ok" /\ r.tag \in {"sitemapindex", "urlset"} ->
                    /\ stack' = SetTop([Top EXCEPT !.phase = r.tag, !.pending = r.locs])
                    /\ UNCHANGED <<result, rpc, rraised>>
             [] OTHER -> Return(Top.page_urls)
    /\ UNCHANGED <<cvars, mvars>>

\* a variant of Recurse: the recursive call is made without visited_sitemaps, so
\* the callee starts from a new set
RecurseNewSet ==
    /\ rpc = "running"
    /\ Top.phase = "sitemapindex"
    /\ Top.pending # << >>
    /\ Len(stack) < MaxDepth
    /\ LET sub_sitemap_url == Head(Top.pending)
       IN  IF urljoinRaises(Top.sitemap_url, strip(sub_sitemap_url))
           THEN Raise("ValueError") /\ UNCHANGED visited_sitemaps
           ELSE /\ stack' = Append(SetTop([Top EXCEPT !.pending = Tail(@)]),
                                   Frame(urljoin(Top.sitemap_url, strip(sub_sitemap_url))))
                /\ visited_sitemaps' = {}
                /\ UNCHANGED <<result, rpc, rraised>>
    /\ UNCHANGED <<docs, fetched>>
    /\ UNCHANGED <<cvars, mvars>>

\* one round of "for sub_sitemap_url in sitemaps": urljoin, then the recursive call
Recurse ==
    /\ rpc = "running"
    /\ Top.phase = "sitemapindex"
    /\ Top.pending # << >>
    /\ Len(stack) < MaxDepth
    /\ LET sub_sitemap_url == Head(Top.pending)
       IN  IF urljoinRaises(Top.sitemap_url, strip(sub_sitemap_url))
           THEN Raise("ValueError")
           ELSE /\ stack' = Append(SetTop([Top EXCEPT !.pending = Tail(@)]),
                                   Frame(urljoin(Top.sitemap_url, strip(sub_sitemap_url))))
                /\ UNCHANGED <<result, rpc, rraised>>
    /\ UNCHANGED <<visited_sitemaps, docs, fetched>>
    /\ UNCHANGED <<cvars, mvars>>

\* one round of "for page_url in urls": strip, test, add
AddPageUrl ==
    /\ rpc = "running"
    /\ Top.phase = "urlset"
    /\ Top.pending # << >>
    /\ LET url_text == strip(Head(Top.pending))
       IN  stack' = SetTop([Top EXCEPT
                !.pending = Tail(@),
                !.page_urls = IF IsPageUrl(url_text) THEN @ \cup {url_text} ELSE @])
    /\ UNCHANGED <<rpc, visited_sitemaps, docs, fetched, result, rraised>>
    /\ UNCHANGED <<cvars, mvars>>

\* the loop is over: "return page_urls"
ReturnPageUrls ==
    /\ rpc = "running"
    /\ Top.phase \in {"sitemapindex", "urlset"}
    /\ Top.pending = << >>
    /\ Return(Top.page_urls)
    /\ UNCHANGED <<visited_sitemaps, docs, fetched>>
    /\ UNCHANGED <<cvars, mvars>>

ResolveNext ==
    \/ \E seed \in Seeds : Resolve(seed)
    \/ SkipVisited
    \/ Fetch
    \/ Recurse
    \/ AddPageUrl
    \/ ReturnPageUrls

\* before get_all_page_urls is called; crawl_and_log_errors is not part of this
ResolveInit ==
    /\ rpc = "idle"
    /\ stack = << >>
    /\ visited_sitemaps = {}
    /\ docs = << >>
    /\ fetched = << >>
    /\ result = {}
    /\ rraised = FALSE
    /\ pc = "idle"
    /\ urls_to_crawl = << >>
    /\ i = 0
    /\ driver = "None"
    /\ filename = << >>
    /\ logs = << >>
    /\ error_log_entries = << >>
    /\ exc = "none"
    /\ files = << >>
    /\ events = << >>
    /\ craised = FALSE
    /\ settings = << >>
    /\ pyhash = << >>
    /\ mpc = "imported"
    /\ start_sitemap_url = << >>

SpecResolve == ResolveInit /\ [][ResolveNext]_vars

\* ------------------------------------------------- crawl_and_log_errors: inputs
UrlX     == <<"h","t","t","p",":","/","/","a","/","x">>
UrlXSl   == <<"h","t","t","p",":","/","/","a","/","x","/">>
UrlBad   == <<"h","t","t","p",":","/","/","[">>
UrlCon   == <<"h","t","t","p",":","/","/","c","o","n">>

\* the page URLs a run can be given: two that differ by a trailing slash, one
\* urlparse rejects, one whose name is a reserved device name
UrlPool == {UrlX, UrlXSl, UrlBad, UrlCon}

\* the digits abs(hash(url)) can have in one process
HashValues == { <<"7">>, <<"8">> }

\* settings.SELENIUM_PAGE_LOAD_TIMEOUT and settings.SELENIUM_SCRIPT_TIMEOUT
SELENIUM_PAGE_LOAD_TIMEOUT == 60
SELENIUM_SCRIPT_TIMEOUT == 30

\* settings.py as a run can find it
SettingsChoices ==
    [CREATE_EMPTY_LOG_FILES : BOOLEAN,
     FILTER_LOG_MESSAGES : { << >>, << <<"F","a">> >> },
     SELENIUM_PAGE_LOAD_TIMEOUT : {SELENIUM_PAGE_LOAD_TIMEOUT}]

Entry(m) == [level |-> "SEVERE", message |-> m]

\* what driver.get_log('browser') can return for one page
BrowserLogs ==
    { << >>,
      << Entry(<<"E">>) >>,
      << Entry(<<"f","A","v">>) >>,
      << Entry(<<"f","A","v">>), Entry(<<"E">>) >> }

\* sequences of distinct members of S, of length up to n
DistinctSeqs(S, n) ==
    { q \in SeqsUpTo(S, n) : \A a, b \in 1..Len(q) : a # b => q[a] # q[b] }

\* ------------------------------------------------- crawl_and_log_errors: the run
url == urls_to_crawl[i]

\* one more entry of the run's record: the call, the URL it is for, what came of it
Did(op, u, what) == events' = Append(events, [op |-> op, url |-> u, what |-> what])

\* "sub in s" of two texts
Contains(s, sub) ==
    \E k \in 0..(Len(s) - Len(sub)) : SubSeq(s, k + 1, k + Len(sub)) = sub

\* filter_list: the configured substrings, lowercased
filter_list == [k \in 1..Len(settings.FILTER_LOG_MESSAGES) |-> lower(settings.FILTER_LOG_MESSAGES[k])]

\* a variant of Filtered: the message and the filters are compared as they are
FilteredCaseSensitive(entry) ==
    /\ settings.FILTER_LOG_MESSAGES # << >>
    /\ \E k \in 1..Len(settings.FILTER_LOG_MESSAGES) :
          Contains(entry.message, settings.FILTER_LOG_MESSAGES[k])

\* "if filter_list and any(filter_text in message_lower ...)": the record is skipped
Filtered(entry) ==
    /\ filter_list # << >>
    /\ \E k \in 1..Len(filter_list) : Contains(lower(entry.message), filter_list[k])

\* the loop over logs: the records not filtered, formatted, in order
Relevant(lg) ==
    LET Keep(entry) == ~Filtered(entry)
        kept == SelectSeq(lg, Keep)
    IN  [k \in 1..Len(kept) |-> [level |-> kept[k].level, message |-> kept[k].message]]

Content(kind, lines, limit) == [kind |-> kind, url |-> url, lines |-> lines, limit |-> limit]

\* what the normal path writes: the records under a header, or the one line
\* saying that there are none
LogContent(entries) ==
    IF entries # << >> THEN Content("logs", entries, 0) ELSE Content("none", << >>, 0)

\* which except clause of the per-URL try takes an exception, and what it writes
ErrorContent(e) ==
    CASE e = "TimeoutException" -> Content("timeout", << >>, settings.SELENIUM_PAGE_LOAD_TIMEOUT)
      [] e = "WebDriverException" -> Content("webdriver", << >>, 0)
      [] OTHER -> Content("unexpected", << >>, 0)

\* open(filepath, 'w') and the writes: done, or OSError at the open (the file is
\* as it was), or OSError at a write (the file is left cut short)
WriteOutcomes == {"ok", "OSError at open", "OSError at write"}

Write(outcome, content) ==
    /\ files' = CASE outcome = "ok" -> (filename :> content) @@ files
                  [] outcome = "OSError at write" ->
                        (filename :> Content("cut short", << >>, 0)) @@ files
                  [] OTHER -> files
    /\ Did("write", url, [name |-> filename, outcome |-> outcome, content |-> content])

\* "except Exception as e" around setup and loop: what it takes
OuterCaught(e) ==
    e \in {"Exception", "ValueError", "OSError", "WebDriverException", "TimeoutException"}

\* "except Exception as quit_err" around driver.quit()
QuitCaught(e) ==
    e \in {"Exception", "ValueError", "OSError", "WebDriverException", "TimeoutException"}

\* an exception outside the per-URL try: logged by the outer handler, then finally
Abort(e) ==
    /\ pc' = "finally"
    /\ craised' = (craised \/ ~OuterCaught(e))

\* "if not urls_to_crawl: return", else the options are built
Start ==
    /\ pc = "idle"
    /\ pc' = IF urls_to_crawl = << >> THEN "done" ELSE "install"
    /\ UNCHANGED <<urls_to_crawl, i, driver, filename, logs, error_log_entries, exc,
                   files, events, craised, settings, pyhash>>
    /\ UNCHANGED <<rvars, mvars>>

\* a variant of InstallDriver: the "return" of the except clause is left out
InstallDriverNoReturn ==
    /\ pc = "install"
    /\ \E ok \in BOOLEAN :
        /\ Did("install", << >>, ok)
        /\ pc' = "chrome"
    /\ UNCHANGED <<urls_to_crawl, i, driver, filename, logs, error_log_entries, exc,
                   files, craised, settings, pyhash>>
    /\ UNCHANGED <<rvars, mvars>>

\* Service(ChromeDriverManager().install()): on failure "return", through finally
InstallDriver ==
    /\ pc = "install"
    /\ \E ok \in BOOLEAN :
        /\ Did("install", << >>, ok)
        /\ pc' = IF ok THEN "chrome" ELSE "finally"
    /\ UNCHANGED <<urls_to_crawl, i, driver, filename, logs, error_log_entries, exc,
                   files, craised, settings, pyhash>>
    /\ UNCHANGED <<rvars, mvars>>

\* driver = webdriver.Chrome(...)
CreateDriver ==
    /\ pc = "chrome"
    /\ \E ok \in BOOLEAN :
        /\ Did("Chrome", << >>, ok)
        /\ IF ok
           THEN /\ driver' = "open"
                /\ pc' = "timeouts"
                /\ UNCHANGED craised
           ELSE /\ Abort("WebDriverException")
                /\ UNCHANGED driver
    /\ UNCHANGED <<urls_to_crawl, i, filename, logs, error_log_entries, exc,
                   files, settings, pyhash>>
    /\ UNCHANGED <<rvars, mvars>>

\* driver.set_page_load_timeout, driver.set_script_timeout
SetTimeouts ==
    /\ pc = "timeouts"
    /\ \E ok \in BOOLEAN :
        IF ok
        THEN /\ Did("set_page_load_timeout", << >>, settings.SELENIUM_PAGE_LOAD_TIMEOUT)
             /\ pc' = "makedirs"
             /\ UNCHANGED craised
        ELSE /\ Abort("WebDriverException")
             /\ UNCHANGED events
    /\ UNCHANGED <<urls_to_crawl, i, driver, filename, logs, error_log_entries, exc,
                   files, settings, pyhash>>
    /\ UNCHANGED <<rvars, mvars>>

\* os.makedirs(output_dir, exist_ok=True): on OSError "return", through finally
MakeDirs ==
    /\ pc = "makedirs"
    /\ \E ok \in BOOLEAN :
        /\ Did("makedirs", << >>, ok)
        /\ pc' = IF ok THEN "loop" ELSE "finally"
        /\ i' = IF ok THEN 1 ELSE i
    /\ UNCHANGED <<urls_to_crawl, driver, filename, logs, error_log_entries, exc,
                   files, craised, settings, pyhash>>
    /\ UNCHANGED <<rvars, mvars>>

\* the head of one iteration: error_log_entries = [], filename = sanitize_filename(url),
\* both before the per-URL try
NextUrl ==
    /\ pc = "loop"
    /\ i <= Len(urls_to_crawl)
    /\ IF sanitize_filenameRaises(url)
       THEN /\ Abort("ValueError")
            /\ UNCHANGED <<filename, error_log_entries>>
       ELSE /\ filename' = sanitize_filename(url)
            /\ error_log_entries' = << >>
            /\ pc' = "get"
            /\ UNCHANGED craised
    /\ UNCHANGED <<urls_to_crawl, i, driver, logs, exc, files, events, settings, pyhash>>
    /\ UNCHANGED <<rvars, mvars>>

\* a variant of LoopDone: the session is closed after the loop as well
LoopDoneQuit ==
    /\ pc = "loop"
    /\ i > Len(urls_to_crawl)
    /\ pc' = "finally"
    /\ Did("quit", << >>, TRUE)
    /\ UNCHANGED <<urls_to_crawl, i, driver, filename, logs, error_log_entries, exc,
                   files, craised, settings, pyhash>>
    /\ UNCHANGED <<rvars, mvars>>

\* the for loop is exhausted
LoopDone ==
    /\ pc = "loop"
    /\ i > Len(urls_to_crawl)
    /\ pc' = "finally"
    /\ UNCHANGED <<urls_to_crawl, i, driver, filename, logs, error_log_entries, exc,
                   files, events, craised, settings, pyhash>>
    /\ UNCHANGED <<rvars, mvars>>

\* driver.get(url), and the delay
Navigate ==
    /\ pc = "get"
    /\ \E r \in {"ok", "TimeoutException", "WebDriverException", "Exception"} :
        /\ Did("get", url, r)
        /\ pc' = IF r = "ok" THEN "get_log" ELSE "except"
        /\ exc' = IF r = "ok" THEN exc ELSE r
    /\ UNCHANGED <<urls_to_crawl, i, driver, filename, logs, error_log_entries,
                   files, craised, settings, pyhash>>
    /\ UNCHANGED <<rvars, mvars>>

\* logs = driver.get_log('browser'); a WebDriverException gives logs = []
GetLog ==
    /\ pc = "get_log"
    /\ \E r \in {"ok", "WebDriverException", "Exception"} :
        /\ Did("get_log", url, r)
        /\ CASE r = "ok" -> \E lg \in BrowserLogs : logs' = lg /\ pc' = "process" /\ exc' = exc
             [] r = "WebDriverException" -> logs' = << >> /\ pc' = "process" /\ exc' = exc
             [] OTHER -> logs' = logs /\ pc' = "except" /\ exc' = r
    /\ UNCHANGED <<urls_to_crawl, i, driver, filename, error_log_entries,
                   files, craised, settings, pyhash>>
    /\ UNCHANGED <<rvars, mvars>>

\* a variant of ProcessLogs: the "continue" of the empty case is left out
ProcessLogsAlwaysWrite ==
    /\ pc = "process"
    /\ error_log_entries' = Relevant(logs)
    /\ pc' = "write"
    /\ UNCHANGED <<urls_to_crawl, i, driver, filename, logs, exc,
                   files, events, craised, settings, pyhash>>
    /\ UNCHANGED <<rvars, mvars>>

\* the filter loop, and "if not error_log_entries and not CREATE_EMPTY_LOG_FILES: continue"
ProcessLogs ==
    /\ pc = "process"
    /\ error_log_entries' = Relevant(logs)
    /\ IF Relevant(logs) = << >> /\ ~settings.CREATE_EMPTY_LOG_FILES
       THEN pc' = "loop" /\ i' = i + 1
       ELSE pc' = "write" /\ i' = i
    /\ UNCHANGED <<urls_to_crawl, driver, filename, logs, exc,
                   files, events, craised, settings, pyhash>>
    /\ UNCHANGED <<rvars, mvars>>

\* the write of the normal path; an OSError is logged
WriteLog ==
    /\ pc = "write"
    /\ \E w \in WriteOutcomes : Write(w, LogContent(error_log_entries))
    /\ pc' = "loop"
    /\ i' = i + 1
    /\ UNCHANGED <<urls_to_crawl, driver, filename, logs, error_log_entries, exc,
                   craised, settings, pyhash>>
    /\ UNCHANGED <<rvars, mvars>>

\* a variant of HandleException: the URL that failed is tried again
HandleExceptionRetry ==
    /\ pc = "except"
    /\ \E w \in WriteOutcomes : Write(w, ErrorContent(exc))
    /\ exc' = "none"
    /\ pc' = "loop"
    /\ i' = i
    /\ UNCHANGED <<urls_to_crawl, driver, filename, logs, error_log_entries,
                   craised, settings, pyhash>>
    /\ UNCHANGED <<rvars, mvars>>

\* the except clauses of the per-URL try: each writes its artifact; an OSError is logged
HandleException ==
    /\ pc = "except"
    /\ \E w \in WriteOutcomes : Write(w, ErrorContent(exc))
    /\ exc' = "none"
    /\ pc' = "loop"
    /\ i' = i + 1
    /\ UNCHANGED <<urls_to_crawl, driver, filename, logs, error_log_entries,
                   craised, settings, pyhash>>
    /\ UNCHANGED <<rvars, mvars>>

\* a variant of Finally: the finally clause is left out
FinallyNoQuit ==
    /\ pc = "finally"
    /\ pc' = "done"
    /\ UNCHANGED <<urls_to_crawl, i, driver, filename, logs, error_log_entries, exc,
                   files, events, craised, settings, pyhash>>
    /\ UNCHANGED <<rvars, mvars>>

\* finally: "if driver:" driver.quit(), a failure of which is logged
Finally ==
    /\ pc = "finally"
    /\ pc' = "done"
    /\ IF driver # "None"
       THEN /\ driver' = "closed"
            /\ \E ok \in BOOLEAN :
                /\ Did("quit", << >>, ok)
                /\ craised' = (craised \/ (~ok /\ ~QuitCaught("WebDriverException")))
       ELSE UNCHANGED <<driver, events, craised>>
    /\ UNCHANGED <<urls_to_crawl, i, filename, logs, error_log_entries, exc,
                   files, settings, pyhash>>
    /\ UNCHANGED <<rvars, mvars>>

CrawlNext ==
    \/ Start
    \/ InstallDriver
    \/ CreateDriver
    \/ SetTimeouts
    \/ MakeDirs
    \/ NextUrl
    \/ LoopDone
    \/ Navigate
    \/ GetLog
    \/ ProcessLogs
    \/ WriteLog
    \/ HandleException
    \/ Finally

\* crawl_and_log_errors is about to be called; get_all_page_urls is not part of this
CrawlInit ==
    /\ pc = "idle"
    /\ urls_to_crawl \in DistinctSeqs(UrlPool, MaxUrls)
    /\ settings \in SettingsChoices
    /\ pyhash \in [{ u \in UrlPool : ~sanitize_filenameRaises(u) /\ NeedsFallback(u) } -> HashValues]
    /\ i = 0
    /\ driver = "None"
    /\ filename = << >>
    /\ logs = << >>
    /\ error_log_entries = << >>
    /\ exc = "none"
    /\ files = << >>
    /\ events = << >>
    /\ craised = FALSE
    /\ rpc = "idle"
    /\ stack = << >>
    /\ visited_sitemaps = {}
    /\ docs = << >>
    /\ fetched = << >>
    /\ result = {}
    /\ rraised = FALSE
    /\ mpc = "imported"
    /\ start_sitemap_url = << >>

SpecCrawl == CrawlInit /\ [][CrawlNext]_vars

\* get_all_page_urls runs on: no step of it waits for anything but its own turn
\* ------------------------------------------------- get_all_page_urls, called twice
\* a variant of ResolveAgain: the set of the first call is used again (as a
\* default argument "visited_sitemaps=set()" would have it)
ResolveAgainSameSet(seed) ==
    /\ rpc = "done"
    /\ events = << >>
    /\ fetched # << >>
    /\ fetched[1] = seed
    /\ Did("get_all_page_urls", seed, [result |-> result, raised |-> rraised, fetched |-> fetched])
    /\ rpc' = "running"
    /\ stack' = <<Frame(seed)>>
    /\ visited_sitemaps' = visited_sitemaps
    /\ fetched' = << >>
    /\ result' = {}
    /\ UNCHANGED <<docs, rraised>>
    /\ UNCHANGED <<pc, urls_to_crawl, i, driver, filename, logs, error_log_entries, exc,
                   files, craised, settings, pyhash>>
    /\ UNCHANGED mvars

\* the first top-level call has returned and get_all_page_urls(seed) is called
\* once more: visited_sitemaps is None again, so a new set; the web is as it
\* was (docs), and what the first call returned and fetched is kept on record
ResolveAgain(seed) ==
    /\ rpc = "done"
    /\ events = << >>
    /\ fetched # << >>
    /\ fetched[1] = seed
    /\ Did("get_all_page_urls", seed, [result |-> result, raised |-> rraised, fetched |-> fetched])
    /\ rpc' = "running"
    /\ stack' = <<Frame(seed)>>
    /\ visited_sitemaps' = {}
    /\ fetched' = << >>
    /\ result' = {}
    /\ UNCHANGED <<docs, rraised>>
    /\ UNCHANGED <<pc, urls_to_crawl, i, driver, filename, logs, error_log_entries, exc,
                   files, craised, settings, pyhash>>
    /\ UNCHANGED mvars

ResolveTwiceNext ==
    \/ \E seed \in Seeds : Resolve(seed)
    \/ SkipVisited
    \/ Fetch
    \/ Recurse
    \/ AddPageUrl
    \/ ReturnPageUrls
    \/ \E seed \in Seeds : ResolveAgain(seed)

SpecResolveTwice == ResolveInit /\ [][ResolveTwiceNext]_vars

\* ------------------------------------------------- sanitize_filename on its own
\* n times the character c
Rep(c, n) == [k \in 1..n |-> c]

SanSchemes == { << >>, HTTP, HTTPS }

\* hosts: plain, a reserved device name in mixed case, one urlparse rejects
SanHosts == { <<"a">>, <<"C","o","n">>, <<"[">> }

\* what follows the host: nothing, paths with and without a trailing slash,
\* parameters, a query, invalid characters, dots and underscores only, a form
\* feed, a tab, and three texts longer than max_len (no "_" to cut at, a "_"
\* to cut at, and a "_" right after the host)
SanTails ==
    { << >>,
      <<"/">>,
      <<"/","x">>,
      <<"/","x","/">>,
      <<"/","x",";","p">>,
      <<"/","x","?","q">>,
      <<"/","a","*","b">>,
      <<"/",".","_">>,
      <<"/","b","\f","c">>,
      <<"/","b","\t","c">>,
      Rep("a", max_len + 5),
      <<"/">> \o Rep("a", max_len - 50) \o <<"_">> \o Rep("b", 60),
      <<"_">> \o Rep("b", max_len) }

\* the URLs sanitize_filename is called on, the empty one among them
SanitizePool ==
    { << >> } \cup { sch \o h \o t : sch \in SanSchemes, h \in SanHosts, t \in SanTails }

\* one call sanitize_filename(url): what it returned, or that it raised
SanitizeCall ==
    /\ pc \in {"sanitize", "sanitize again"}
    /\ i <= Len(urls_to_crawl)
    /\ IF sanitize_filenameRaises(url)
       THEN /\ Did("sanitize_filename", url, [raised |-> TRUE, name |-> << >>])
            /\ UNCHANGED filename
       ELSE /\ filename' = sanitize_filename(url)
            /\ Did("sanitize_filename", url, [raised |-> FALSE, name |-> sanitize_filename(url)])
    /\ i' = i + 1
    /\ UNCHANGED <<pc, urls_to_crawl, driver, logs, error_log_entries, exc,
                   files, craised, settings, pyhash>>
    /\ UNCHANGED <<rvars, mvars>>

\* the process ends and the script is run again on the same URLs: hash() of a
\* str is salted anew in every process
NewProcess ==
    /\ pc = "sanitize"
    /\ i > Len(urls_to_crawl)
    /\ pc' = "sanitize again"
    /\ i' = 1
    /\ pyhash' \in [DOMAIN pyhash -> HashValues]
    /\ UNCHANGED <<urls_to_crawl, driver, filename, logs, error_log_entries, exc,
                   files, events, craised, settings>>
    /\ UNCHANGED <<rvars, mvars>>

SanitizeNext ==
    \/ SanitizeCall
    \/ NewProcess

\* sanitize_filename is about to be called on a URL and on the same with a
\* slash appended
SanitizeInit ==
    /\ pc = "sanitize"
    /\ \E u \in SanitizePool :
          /\ urls_to_crawl = << u, u \o <<"/">> >>
          /\ pyhash \in [{ v \in {u, u \o <<"/">>} :
                               v # << >> /\ ~sanitize_filenameRaises(v) /\ NeedsFallback(v) }
                           -> HashValues]
    /\ i = 1
    /\ settings = << >>
    /\ driver = "None"
    /\ filename = << >>
    /\ logs = << >>
    /\ error_log_entries = << >>
    /\ exc = "none"
    /\ files = << >>
    /\ events = << >>
    /\ craised = FALSE
    /\ rpc = "idle"
    /\ stack = << >>
    /\ visited_sitemaps = {}
    /\ docs = << >>
    /\ fetched = << >>
    /\ result = {}
    /\ rraised = FALSE
    /\ mpc = "imported"
    /\ start_sitemap_url = << >>

SpecSanitize == SanitizeInit /\ [][SanitizeNext]_vars

\* ------------------------------------------------- the main block
\* what can be typed at the prompt: nothing, a blank, a sitemap URL with a blank
\* before it and the newline of a paste after it, a text without a scheme
InputTexts ==
    { << >>,
      <<" ">>,
      <<" ">> \o SeedA \o <<"\n">>,
      <<"a","/","1">> }

\* settings.py as it is shipped
ShippedSettings ==
    [CREATE_EMPTY_LOG_FILES |-> FALSE,
     FILTER_LOG_MESSAGES |-> << >>,
     SELENIUM_PAGE_LOAD_TIMEOUT |-> SELENIUM_PAGE_LOAD_TIMEOUT]

\* list(all_urls): the members of the set in some order
ListsOf(S) == { q \in DistinctSeqs(S, Cardinality(S)) : Len(q) = Cardinality(S) }

\* a variant of MainValidate: only the empty input is turned away
MainValidateNonEmpty ==
    /\ mpc = "input"
    /\ \E text \in InputTexts :
          /\ start_sitemap_url' = strip(text)
          /\ IF strip(text) = << >>
             THEN /\ Did("print", strip(text), "Error: Sitemap URL cannot be empty.")
                  /\ mpc' = "finished"
             ELSE /\ mpc' = "resolve"
                  /\ UNCHANGED events
    /\ UNCHANGED <<pc, urls_to_crawl, i, driver, filename, logs, error_log_entries, exc,
                   files, craised, settings, pyhash>>
    /\ UNCHANGED rvars

\* input(...).strip() and the validation of the format
MainValidate ==
    /\ mpc = "input"
    /\ \E text \in InputTexts :
          /\ start_sitemap_url' = strip(text)
          /\ IF strip(text) = << >>
             THEN /\ Did("print", strip(text), "Error: Sitemap URL cannot be empty.")
                  /\ mpc' = "finished"
             ELSE IF ~(startswith(strip(text), HTTP) \/ startswith(strip(text), HTTPS))
             THEN /\ Did("print", strip(text), "Error: Invalid URL format.")
                  /\ mpc' = "finished"
             ELSE /\ mpc' = "resolve"
                  /\ UNCHANGED events
    /\ UNCHANGED <<pc, urls_to_crawl, i, driver, filename, logs, error_log_entries, exc,
                   files, craised, settings, pyhash>>
    /\ UNCHANGED rvars

\* all_urls = get_all_page_urls(start_sitemap_url): the call is made
MainResolve ==
    /\ mpc = "resolve"
    /\ Resolve(start_sitemap_url)

\* "if all_urls:" crawl_and_log_errors(list(all_urls)) is called, else the
\* warning; the call of get_all_page_urls has returned, and of what it went
\* through only all_urls is kept
MainCrawl ==
    /\ mpc = "resolve"
    /\ rpc = "done"
    /\ IF result # {}
       THEN /\ urls_to_crawl' \in ListsOf(result)
            /\ mpc' = "crawl"
            /\ UNCHANGED events
       ELSE /\ Did("logging.warning", start_sitemap_url, "No page URLs were extracted")
            /\ mpc' = "finished"
            /\ UNCHANGED urls_to_crawl
    /\ visited_sitemaps' = {}
    /\ docs' = << >>
    /\ fetched' = << >>
    /\ UNCHANGED <<rpc, stack, result, rraised>>
    /\ UNCHANGED <<pc, i, driver, filename, logs, error_log_entries, exc,
                   files, craised, settings, pyhash>>
    /\ UNCHANGED start_sitemap_url

\* crawl_and_log_errors begins
MainStart ==
    /\ mpc = "crawl"
    /\ Start

\* crawl_and_log_errors has returned: "Crawling process finished."
MainFinish ==
    /\ mpc = "crawl"
    /\ pc = "done"
    /\ mpc' = "finished"
    /\ UNCHANGED start_sitemap_url
    /\ UNCHANGED rvars
    /\ UNCHANGED cvars

MainNext ==
    \/ MainValidate
    \/ MainResolve
    \/ SkipVisited
    \/ Fetch
    \/ Recurse
    \/ AddPageUrl
    \/ ReturnPageUrls
    \/ MainCrawl
    \/ MainStart
    \/ InstallDriver
    \/ CreateDriver
    \/ SetTimeouts
    \/ MakeDirs
    \/ NextUrl
    \/ LoopDone
    \/ Navigate
    \/ GetLog
    \/ ProcessLogs
    \/ WriteLog
    \/ HandleException
    \/ Finally
    \/ MainFinish

\* the script has been started and is at the prompt
MainInit ==
    /\ mpc = "input"
    /\ start_sitemap_url = << >>
    /\ rpc = "idle"
    /\ stack = << >>
    /\ visited_sitemaps = {}
    /\ docs = << >>
    /\ fetched = << >>
    /\ result = {}
    /\ rraised = FALSE
    /\ pc = "idle"
    /\ urls_to_crawl = << >>
    /\ settings = ShippedSettings
    /\ pyhash = << >>
    /\ i = 0
    /\ driver = "None"
    /\ filename = << >>
    /\ logs = << >>
    /\ error_log_entries = << >>
    /\ exc = "none"
    /\ files = << >>
    /\ events = << >>
    /\ craised = FALSE

SpecMain == MainInit /\ [][MainNext]_vars

FairSpecResolve == SpecResolve /\ WF_vars(ResolveNext)

\* ================================================================= claims
\* ---- what the claims speak of, stated apart from the operators of the model
Range(q) == { q[k] : k \in 1..Len(q) }

\* url_text is text with the blanks at both ends removed
IsTrimOf(url_text, text) ==
    \E a, b \in 0..Len(text) :
        /\ a + b + Len(url_text) = Len(text)
        /\ SubSeq(text, a + 1, Len(text) - b) = url_text
        /\ \A k \in (1..a) \cup ((Len(text) - b + 1)..Len(text)) : text[k] \in {" ", "\t", "\n", "\r"}
        /\ url_text # << >> => /\ url_text[1] \notin {" ", "\t", "\n", "\r"}
                               /\ url_text[Len(url_text)] \notin {" ", "\t", "\n", "\r"}

\* t begins with http:// or https://
HasHttpScheme(t) ==
    \/ Len(t) >= 7 /\ SubSeq(t, 1, 7) = <<"h","t","t","p",":","/","/">>
    \/ Len(t) >= 8 /\ SubSeq(t, 1, 8) = <<"h","t","t","p","s",":","/","/">>

\* the page URLs a fetched document stands for: those of a urlset that parsed
PagesOf(u) ==
    IF u \in DOMAIN docs /\ docs[u].status = "ok" /\ docs[u].tag = "urlset"
    THEN { t \in UNION { { SubSeq(l, a, b) : a, b \in 1..Len(l) } : l \in Range(docs[u].locs) } :
             HasHttpScheme(t) /\ \E l \in Range(docs[u].locs) : IsTrimOf(t, l) }
    ELSE {}

\* the sub-sitemaps a fetched index refers to
SubSitemapsOf(u) ==
    IF u \in DOMAIN docs /\ docs[u].status = "ok" /\ docs[u].tag = "sitemapindex"
    THEN { urljoin(u, strip(l)) : l \in { x \in Range(docs[u].locs) : ~urljoinRaises(u, strip(x)) } }
    ELSE {}

RECURSIVE ReachableFrom(_)
ReachableFrom(S) ==
    LET more == S \cup UNION { SubSitemapsOf(u) : u \in S }
    IN  IF more = S THEN S ELSE ReachableFrom(more)

\* the sitemap URLs reachable from the seed of the call
Reachable == IF fetched = << >> THEN {} ELSE ReachableFrom({fetched[1]})

\* every fetch of the call succeeded, and every <loc> of an index is a URL
EveryFetchSucceeds ==
    \A u \in DOMAIN docs :
        /\ docs[u].status = "ok"
        /\ docs[u].tag = "sitemapindex" =>
              \A l \in Range(docs[u].locs) : ~urljoinRaises(u, strip(l))

Gets == { e \in Range(events) : e.op = "get" }
Writes == { e \in Range(events) : e.op = "write" }
Attempted(u) == \E e \in Gets : e.url = u
SetupDone == \E e \in Range(events) : e.op = "makedirs" /\ e.what

\* ---- C1 (as the claim has it; the code breaks it)
\* Failure isolation: once the session and the output directory are set up, a
\* run that has ended has attempted navigation for every URL whose processing
\* could begin at all, whatever failed for the URLs before it, and no exception
\* left crawl_and_log_errors.
C1_FailureIsolation ==
    (pc = "done" /\ SetupDone) =>
        /\ \A k \in 1..Len(urls_to_crawl) :
              ~sanitize_filenameRaises(urls_to_crawl[k]) => Attempted(urls_to_crawl[k])
        /\ ~craised

C3_Terminates ==
    /\ <>(rpc = "done")
    /\ [][(rpc = "running" /\ Top.phase = "enter" /\ Top.sitemap_url \in visited_sitemaps) =>
            /\ fetched' = fetched
            /\ stack' = SubSeq(stack, 1, Len(stack) - 1)]_vars

\* a call on the URL of one of its own callers: a cycle, about to be cut
C3_Witness ==
    /\ rpc = "running" /\ Top.phase = "enter"
    /\ Top.sitemap_url \in visited_sitemaps
    /\ \E k \in 1..(Len(stack) - 2) : stack[k].sitemap_url = Top.sitemap_url

\* ---- C4
\* Within one top-level call every sitemap URL is fetched at most once.
C4_FetchedOnce ==
    \A a, b \in 1..Len(fetched) : a # b => fetched[a] # fetched[b]

\* a sub-sitemap referred to by the seed and by another index, all fetched
C4_Witness ==
    /\ rpc = "done" /\ Len(fetched) = 3
    /\ \E u \in DOMAIN docs, v \in DOMAIN docs, w \in DOMAIN docs :
          /\ u = fetched[1] /\ v # u /\ w # u /\ w # v
          /\ w \in SubSitemapsOf(u) /\ v \in SubSitemapsOf(u) /\ w \in SubSitemapsOf(v)

\* ---- C5 (as the claim has it; the code breaks it)
\* Every artifact a URL has written is still on disk with that URL's content:
\* no later URL of the run overwrites it or cuts it short.
C5_OwnArtifact ==
    \A e \in Writes :
        e.what.outcome = "ok" =>
            /\ e.what.name \in DOMAIN files
            /\ files[e.what.name] = e.what.content

\* ---- C6
\* A session that was created is closed on every way out, and a failure of
\* the close does not leave crawl_and_log_errors as an exception.
C6_SessionClosed ==
    pc = "done" =>
        /\ driver # "open"
        /\ (\E e \in Range(events) : e.op = "Chrome" /\ e.what) =>
              (\E e \in Range(events) : e.op = "quit")
        /\ ~craised

\* the loop left by an exception, and the close failing after it
C6_Witness ==
    /\ pc = "done" /\ driver = "closed"
    /\ SetupDone /\ i <= Len(urls_to_crawl)
    /\ \E e \in Range(events) : e.op = "quit" /\ ~e.what

\* ---- C7
\* The resolver fails soft: a node whose fetch or parse failed adds nothing,
\* no exception leaves get_all_page_urls, and the pages of every urlset that
\* was fetched are in the result.
C7_FailSoft ==
    rpc = "done" =>
        /\ ~rraised
        /\ result = UNION { PagesOf(u) : u \in DOMAIN docs }

\* a failed sub-sitemap fetched before a sibling urlset whose pages are returned
C7_Witness ==
    /\ rpc = "done" /\ Len(fetched) = 3
    /\ docs[fetched[2]].status \in {"RequestException", "XMLSyntaxError", "empty", "rootNone"}
    /\ docs[fetched[3]].status = "ok" /\ docs[fetched[3]].tag = "urlset"
    /\ result # {}

\* ---- C8
\* Every page URL held at any point of the resolution, and every one returned,
\* is the trimmed text of a <loc> of a fetched urlset and begins with http://
\* or https://.
C8_PageUrlsValid ==
    \A url_text \in result \cup UNION { stack[k].page_urls : k \in 1..Len(stack) } :
        /\ HasHttpScheme(url_text)
        /\ \E u \in DOMAIN docs : \E l \in Range(docs[u].locs) :
              docs[u].tag = "urlset" /\ IsTrimOf(url_text, l)

\* a urlset with a padded entry and a relative one: only the trimmed one is returned
C8_Witness ==
    /\ rpc = "done"
    /\ \E u \in DOMAIN docs :
          /\ docs[u].tag = "urlset"
          /\ <<"/","r">> \in Range(docs[u].locs)
          /\ <<" ","h","t","t","p",":","/","/","p","\n">> \in Range(docs[u].locs)
    /\ result = { <<"h","t","t","p",":","/","/","p">> }

\* ---- C9
\* If driver provisioning or browser construction fails, the run navigates to
\* no URL, writes no artifact, and ends without raising.
SetupFailed == \E e \in Range(events) : e.op \in {"install", "Chrome"} /\ ~e.what

C9_SetupFailureFatal ==
    SetupFailed =>
        /\ Gets = {} /\ Writes = {} /\ files = << >>
        /\ pc \in {"finally", "done"}
        /\ ~craised

\* the browser could not be constructed, the driver having been provisioned
C9_Witness ==
    /\ pc = "done" /\ urls_to_crawl # << >>
    /\ \E e \in Range(events) : e.op = "Chrome" /\ ~e.what

\* ---- C10 (as the claim has it; the code breaks it)
\* When navigation to URL k times out, what is written for it is the timeout
\* message with the configured limit, and URL k+1 is still navigated to.
C10_TimeoutContinues ==
    pc = "done" =>
        \A k \in 1..Len(urls_to_crawl) :
            (\E e \in Gets : e.url = urls_to_crawl[k] /\ e.what = "TimeoutException") =>
                /\ \A w \in Writes :
                      (w.url = urls_to_crawl[k] /\ w.what.outcome = "ok") =>
                          /\ w.what.content.kind = "timeout"
                          /\ w.what.content.limit = SELENIUM_PAGE_LOAD_TIMEOUT
                /\ k < Len(urls_to_crawl) => Attempted(urls_to_crawl[k + 1])

\* ---- what C11, C12 and C20 speak of
Lowers == <<"a","b","c","d","e","f","g","h","i","j","k","l","m",
            "n","o","p","q","r","s","t","u","v","w","x","y","z">>
Uppers == <<"A","B","C","D","E","F","G","H","I","J","K","L","M",
            "N","O","P","Q","R","S","T","U","V","W","X","Y","Z">>

\* the same character, or the same letter in its two cases
SameIgnoringCase(a, b) ==
    a = b \/ \E k \in 1..Len(Lowers) : {a, b} = {Lowers[k], Uppers[k]}

\* the message of the record contains a configured filter, case-insensitively
FilterMatches(entry) ==
    \E n \in 1..Len(settings.FILTER_LOG_MESSAGES) :
        LET f == settings.FILTER_LOG_MESSAGES[n]
        IN  \E off \in 0..(Len(entry.message) - Len(f)) :
                \A k \in 1..Len(f) : SameIgnoringCase(entry.message[off + k], f[k])

\* the records of lg no filter matches, in the order of lg
RECURSIVE Unmatched(_)
Unmatched(lg) ==
    IF lg = << >> THEN << >>
    ELSE IF FilterMatches(Head(lg)) THEN Unmatched(Tail(lg))
    ELSE <<Head(lg)>> \o Unmatched(Tail(lg))

\* the last thing the run did to the outside
LastEvent == events[Len(events)]

\* the last thing done was the write of the normal path
WroteLog ==
    /\ events # << >>
    /\ LastEvent.op = "write"
    /\ LastEvent.what.content.kind \in {"logs", "none"}

\* the last thing done was a retrieval of the records that went well
GotLog ==
    /\ events # << >>
    /\ LastEvent.op = "get_log"
    /\ LastEvent.what = "ok"

\* ---- C11
\* A URL navigated to with no record left after filtering: with
\* CREATE_EMPTY_LOG_FILES false its iteration ends without a write (nothing is
\* written between the retrieval and the next navigation, so no file is
\* touched); with it true the iteration goes on to the write, and what it
\* writes is the artifact with the one line saying that there are none.
C11_EmptyResultArtifact ==
    /\ (GotLog /\ Unmatched(logs) = << >>) =>
          IF settings.CREATE_EMPTY_LOG_FILES
          THEN pc \in {"process", "write"}
          ELSE /\ pc \notin {"write", "except"}
               /\ \A w \in Writes : w.url # LastEvent.url
    /\ (WroteLog /\ Unmatched(logs) = << >>) =>
          /\ settings.CREATE_EMPTY_LOG_FILES
          /\ LastEvent.what.content.kind = "none"
          /\ LastEvent.what.content.lines = << >>
          /\ LastEvent.what.content.url = LastEvent.url
          /\ LastEvent.what.outcome = "ok" =>
                files[LastEvent.what.name] = LastEvent.what.content

\* the first of two URLs had records, all of them filtered, and nothing was written
C11_Witness ==
    /\ GotLog /\ logs # << >> /\ Unmatched(logs) = << >>
    /\ ~settings.CREATE_EMPTY_LOG_FILES
    /\ pc = "loop" /\ i = 2 /\ Len(urls_to_crawl) = 2
    /\ files = << >>

\* ---- C12
\* Filtering is per record: the records kept for a URL, and the lines written
\* for it, are exactly the retrieved records no filter matches
\* case-insensitively, in the order of retrieval.
C12_FilterPerRecord ==
    /\ pc = "write" => error_log_entries = Unmatched(logs)
    /\ WroteLog => LastEvent.what.content.lines = Unmatched(logs)

\* of two records the first was filtered (in another case than the filter's)
\* and the second was written
C12_Witness ==
    /\ WroteLog /\ LastEvent.what.outcome = "ok"
    /\ Len(logs) = 2 /\ FilterMatches(logs[1]) /\ ~FilterMatches(logs[2])
    /\ LastEvent.what.content.lines = << logs[2] >>
    /\ files[LastEvent.what.name].lines = << logs[2] >>

\* ---- what C13, C14 and C16 speak of
\* the calls of sanitize_filename made so far
Calls == { e \in Range(events) : e.op = "sanitize_filename" }

\* the name without its ".log"
BaseOf(name) ==
    IF Len(name) >= 4 /\ SubSeq(name, Len(name) - 3, Len(name)) = <<".","l","o","g">>
    THEN SubSeq(name, 1, Len(name) - 4)
    ELSE name

\* the characters no base may hold (of the control characters \x00-\x1f, the
\* ones text here can hold)
UnsafeChars == {"\\", "/", "*", "?", ":", "\"", "<", ">", "|", "\t", "\n", "\r", "\f"}

DeviceNames ==
    { <<"C","O","N">>, <<"P","R","N">>, <<"A","U","X">>, <<"N","U","L">>,
      <<"C","O","M","1">>, <<"C","O","M","2">>, <<"C","O","M","3">>,
      <<"C","O","M","4">>, <<"C","O","M","5">>, <<"C","O","M","6">>,
      <<"C","O","M","7">>, <<"C","O","M","8">>, <<"C","O","M","9">>,
      <<"L","P","T","1">>, <<"L","P","T","2">>, <<"L","P","T","3">>,
      <<"L","P","T","4">>, <<"L","P","T","5">>, <<"L","P","T","6">>,
      <<"L","P","T","7">>, <<"L","P","T","8">>, <<"L","P","T","9">> }

\* base is a reserved device name, in whatever case
IsDeviceName(base) ==
    \E d \in DeviceNames :
        /\ Len(d) = Len(base)
        /\ \A k \in 1..Len(d) : SameIgnoringCase(base[k], d[k])

\* ---- C13
\* Every name sanitize_filename returns has at most 204 characters; its base
\* has at most 200, none of them unsafe, is not empty and is not a reserved
\* device name.
C13_SafeName ==
    \A e \in Calls :
        ~e.what.raised =>
            /\ Len(e.what.name) <= 204
            /\ Len(BaseOf(e.what.name)) <= 200
            /\ BaseOf(e.what.name) # << >>
            /\ \A k \in 1..Len(BaseOf(e.what.name)) : BaseOf(e.what.name)[k] \notin UnsafeChars
            /\ ~IsDeviceName(BaseOf(e.what.name))

\* a URL whose host and path make more than 200 characters, cut to a name of 204
C13_Witness ==
    \E e \in Calls :
        /\ Len(e.url) > 204
        /\ ~e.what.raised
        /\ Len(e.what.name) = 204

\* ---- C14 (as the claim has it; the code breaks it)
\* Within one process, for an http(s) URL u, sanitize_filename(u) and
\* sanitize_filename(u + "/") end alike: the same name, or both raise.
C14_TrailingSlash ==
    pc = "sanitize" =>
        \A e1, e2 \in Calls :
            (HasHttpScheme(e1.url) /\ e2.url = e1.url \o <<"/">>) => e2.what = e1.what

\* ---- C16 (as the claim has it; the code breaks it)
\* The same URL gets the same name on every call, in every run.
C16_Deterministic ==
    \A e1, e2 \in Calls :
        e1.url = e2.url => e1.what = e2.what

\* ---- C15
\* A second top-level call on the same seed over the same web returns what the
\* first returned, after the same fetches, and the visited set of the first
\* call is not carried over: in the second call it holds what the second call
\* has fetched and nothing else.
C15_Idempotent ==
    events # << >> =>
        /\ visited_sitemaps = Range(fetched)
        /\ rpc = "done" =>
              /\ result = events[1].what.result
              /\ fetched = events[1].what.fetched
              /\ rraised = events[1].what.raised

\* the second call over a web of three sitemaps with a cycle has returned two pages
C15_Witness ==
    /\ events # << >> /\ rpc = "done"
    /\ Len(fetched) = 3
    /\ \E u \in Reachable : u # fetched[1] /\ fetched[1] \in SubSitemapsOf(u)
    /\ Cardinality(result) = 2

\* ---- what C17 speaks of
\* the seed typed in is not empty and begins with http:// or https://
ValidSeed == start_sitemap_url # << >> /\ HasHttpScheme(start_sitemap_url)

\* get_all_page_urls has been called, or something has been fetched
ResolutionBegun == rpc # "idle" \/ stack # << >> \/ fetched # << >> \/ docs # << >>

\* crawl_and_log_errors has got as far as providing a driver, or further
SessionBegun ==
    \/ driver # "None"
    \/ \E e \in Range(events) : e.op \in {"install", "Chrome", "get", "get_log", "quit"}

\* ---- C17
\* A sitemap is fetched only for a seed that is not empty and begins with
\* http:// or https://; a session is provided for only if moreover the
\* resolution returned page URLs, which are then the URLs crawled; a run that
\* does neither has printed or logged why; and no run ends by an exception.
C17_MainGates ==
    /\ ResolutionBegun => ValidSeed
    /\ SessionBegun =>
          /\ ValidSeed
          /\ rpc = "done" /\ result # {}
          /\ Range(urls_to_crawl) = result
    /\ mpc = "finished" =>
          /\ ~rraised /\ ~craised
          /\ ~SessionBegun =>
                \E e \in Range(events) : e.op \in {"print", "logging.warning"}

\* a run that resolved two page URLs, crawled them in one browser session and ended
C17_Witness ==
    /\ mpc = "finished"
    /\ Cardinality(result) = 2
    /\ \E e \in Range(events) : e.op = "Chrome" /\ e.what
    /\ \E e \in Range(events) : e.op = "quit"
    /\ Cardinality(Gets) = 2

\* ---- what C18 and C19 speak of
\* the positions in events of the calls named op
At(op) == { k \in 1..Len(events) : events[k].op = op }

\* what was done for single URLs, in order: navigations, retrievals, writes
IsPerUrl(e) == e.op \in {"get", "get_log", "write"}
IsNavigation(e) == e.op = "get"

\* what was done with the session, in order
IsOfSession(e) == e.op \in {"Chrome", "set_page_load_timeout", "get", "get_log", "quit"}

\* ---- C18
\* The n-th navigation of a run is to the n-th URL of the input, so the URLs
\* are navigated to in input order and each at most once; what is done for
\* single URLs begins with a navigation, and every retrieval and every write
\* is for the URL of the navigation before it, so it comes before the next
\* navigation; after a navigation the records are retrieved at most once and
\* an artifact is written at most once.
C18_Sequential ==
    LET per == SelectSeq(events, IsPerUrl)
        navigations == SelectSeq(per, IsNavigation)
    IN  /\ Len(navigations) <= Len(urls_to_crawl)
        /\ \A n \in 1..Len(navigations) : navigations[n].url = urls_to_crawl[n]
        /\ \A k \in 1..Len(per) :
              per[k].op # "get" =>
                  /\ k > 1
                  /\ per[k - 1].url = per[k].url
                  /\ per[k - 1].op # "write"
                  /\ per[k].op = "get_log" => per[k - 1].op = "get"

\* two URLs crawled to the end, the first one's artifact written before the
\* second navigation
C18_Witness ==
    /\ pc = "done" /\ Len(urls_to_crawl) = 2
    /\ Cardinality(At("get")) = 2
    /\ \E w \in At("write") : \E g \in At("get") :
          /\ events[w].url = urls_to_crawl[1]
          /\ events[g].url = urls_to_crawl[2]
          /\ w < g

\* ---- C19
\* Of what a run does with the session, webdriver.Chrome comes first and only
\* once, the timeouts are set right after it if it went well, every
\* navigation and every retrieval comes after both and before driver.quit,
\* which is called at most once, on a session that was created, and is the
\* last of all; and the driver is open while a URL is being processed.
C19_OneSession ==
    LET session == SelectSeq(events, IsOfSession)
        Created == session[1].op = "Chrome" /\ session[1].what
    IN  /\ \A k \in 1..Len(session) :
              CASE session[k].op = "Chrome" -> k = 1
                [] session[k].op = "set_page_load_timeout" -> k = 2 /\ Created
                [] session[k].op = "quit" -> k = Len(session) /\ k > 1 /\ Created
                [] OTHER -> /\ k > 2 /\ Created
                            /\ session[2].op = "set_page_load_timeout"
        /\ pc \in {"get", "get_log", "process", "write", "except"} => driver = "open"

\* two URLs navigated to and their records retrieved in one session, closed once
C19_Witness ==
    /\ pc = "done"
    /\ Cardinality(At("get")) = 2 /\ Cardinality(At("get_log")) = 2
    /\ Cardinality(At("Chrome")) = 1 /\ Cardinality(At("quit")) = 1

\* ---- C20 (as the claim has it; the code breaks it)
\* When the retrieval of the records fails after a navigation that went well,
\* the URL goes on as one with no records: its iteration does not enter an
\* except clause, and nothing but the artifact saying that there are no
\* records is ever written for it.
C20_RetrievalFailureIsEmpty ==
    \A k \in At("get_log") :
        events[k].what # "ok" =>
            /\ k = Len(events) => pc # "except"
            /\ \A w \in Writes :
                  w.url = events[k].url => w.what.content.kind = "none"

\* ---- what C21 speaks of
\* the URL being processed has just had a write of its artifact fail
WriteFailing ==
    /\ pc \in {"write", "except"}
    /\ Len(events') = Len(events) + 1
    /\ events'[Len(events')].op = "write"
    /\ events'[Len(events')].what.outcome # "ok"

\* a write of URL k's artifact has failed
WriteFailedFor(k) ==
    \E e \in Writes : e.url = urls_to_crawl[k] /\ e.what.outcome # "ok"

\* ---- C21 (as the claim has it; the code breaks it)
\* A failing write of URL i's artifact, on the normal path or in a handler,
\* leaves the iteration for the next one and changes no artifact of another
\* URL; no exception leaves crawl_and_log_errors, and at the end of a run
\* URL i+1 has been navigated to.
C21_WriteErrorContinues ==
    /\ [][WriteFailing =>
            /\ pc' = "loop" /\ i' = i + 1 /\ ~craised'
            /\ \A n \in DOMAIN files :
                  files[n].url # url => (n \in DOMAIN files' /\ files'[n] = files[n])]_vars
    /\ [](pc = "done" =>
            \A k \in 1..Len(urls_to_crawl) :
                WriteFailedFor(k) =>
                    /\ ~craised
                    /\ k < Len(urls_to_crawl) => Attempted(urls_to_crawl[k + 1]))

\* ---- what C22 speaks of
\* the fetch or the parse of u failed
FetchFailed(u) == u \in DOMAIN docs /\ docs[u].status # "ok"

\* ---- C22
\* Within one resolution visited_sitemaps only grows; the step that fetches a
\* sitemap URL finds it unmarked and leaves it marked whatever the fetch and
\* the parse give, so a URL whose fetch or parse failed is not fetched again;
\* and every URL for which a fetch was attempted is in visited_sitemaps, at
\* return as before it.
C22_VisitedBeforeFetch ==
    /\ [][/\ visited_sitemaps \subseteq visited_sitemaps'
          /\ fetched' # fetched =>
                LET u == fetched'[Len(fetched')]
                IN  /\ u \notin visited_sitemaps
                    /\ u \in visited_sitemaps'
                    /\ ~FetchFailed(u)]_vars
    /\ [](Range(fetched) \subseteq visited_sitemaps)

\* a sub-sitemap whose fetch failed, then a sibling index that refers to it:
\* the call is over and the failed one was fetched once
C22_Witness ==
    /\ rpc = "done" /\ Len(fetched) = 3
    /\ FetchFailed(fetched[2])
    /\ docs[fetched[3]].status = "ok" /\ docs[fetched[3]].tag = "sitemapindex"
    /\ fetched[2] \in SubSitemapsOf(fetched[3])
    /\ visited_sitemaps = Range(fetched)

====
